---- MODULE Spec2Model ----
(***************************************************************************)
(* A model of two parts of the EBM native library:                         *)
(*   - Tensor (src/shared/libebm/Tensor.cpp): a sparse piecewise-constant  *)
(*     score tensor with in-place Expand and merge-Add;                    *)
(*   - CalcInteractionStrength                                             *)
(*     (src/shared/ebm_native/CalculateInteractionScore.cpp): validation,  *)
(*     arena sizing, collaborator calls and gain classification.           *)
(* Pointers are modelled as 0-based offsets into buffers; a buffer is a    *)
(* sequence whose length is its capacity.  Memory that malloc/realloc      *)
(* returned and nobody wrote yet holds the poison value Uninit.            *)
(***************************************************************************)
EXTENDS Integers, Sequences, FiniteSets, TLC

\* ------------------------------------------------------------------ bounds
MaxDims == 2
MaxBins == 3
MaxScores == 2
MaxOps == 2
SizeBits == 8
FMax == 100000

\* ------------------------------------------------------------ float model
\* FloatScore / FloatEbmType: the finite values are the integers of
\* -FMax..FMax (FMax is numeric_limits::max(), -FMax is lowest()); above them
\* +infinity, below them -infinity, and NaN, which compares false to all.
PInf == FMax + 1
NInf == 0 - (FMax + 1)
NaN == FMax + 2
Uninit == FMax + 3

IsNaN(x) == x = NaN
IsInf(x) == x = PInf \/ x = NInf
IsFinite(x) == x >= 0 - FMax /\ x <= FMax
FLe(x, y) == ~IsNaN(x) /\ ~IsNaN(y) /\ x <= y
FLt(x, y) == ~IsNaN(x) /\ ~IsNaN(y) /\ x < y

FRound(s) == IF s > FMax THEN PInf ELSE IF s < 0 - FMax THEN NInf ELSE s

FAdd(x, y) ==
  IF x = Uninit \/ y = Uninit THEN Uninit
  ELSE IF IsNaN(x) \/ IsNaN(y) THEN NaN
  ELSE IF (x = PInf /\ y = NInf) \/ (x = NInf /\ y = PInf) THEN NaN
  ELSE IF IsInf(x) THEN x
  ELSE IF IsInf(y) THEN y
  ELSE FRound(x + y)

FAbs(x) == IF x < 0 THEN 0 - x ELSE x

\* the product of two floats; a product beyond FMax is not formed
FMul(x, y) ==
  IF x = Uninit \/ y = Uninit THEN Uninit
  ELSE IF IsNaN(x) \/ IsNaN(y) THEN NaN
  ELSE IF (IsInf(x) /\ y = 0) \/ (x = 0 /\ IsInf(y)) THEN NaN
  ELSE IF IsInf(x) \/ IsInf(y)
  THEN (IF (x > 0) = (y > 0) THEN PInf ELSE NInf)
  ELSE IF x = 0 \/ y = 0 THEN 0
  ELSE IF FAbs(x) > FMax \div FAbs(y)
  THEN (IF (x > 0) = (y > 0) THEN PInf ELSE NInf)
  ELSE FRound(x * y)

\* ------------------------------------------------------- size_t arithmetic
SizeMax == 2 ^ SizeBits - 1
\* the value an unsigned computation of the width of size_t leaves
SizeT(x) == x % (SizeMax + 1)
\* the check is left out
IsAddError_Never(x, y) == FALSE

IsAddError(x, y) == x + y > SizeMax
IsMultiplyError(x, y) == x * y > SizeMax
\* sizeof(UIntSplit) and sizeof(FloatScore), in units of the width of size_t
SizeofUIntSplit == SizeBits \div SizeBits
SizeofFloatScore == SizeBits \div SizeBits

\* --------------------------------------------------------------- buffers
InBuf(buf, i) == i >= 0 /\ i < Len(buf)
At(buf, i) == IF InBuf(buf, i) THEN buf[i + 1] ELSE Uninit
Put(buf, i, v) == IF InBuf(buf, i) THEN [buf EXCEPT ![i + 1] = v] ELSE buf
Fresh(n) == [i \in 1..n |-> Uninit]
\* realloc / aligned grow with copy: the first Len(old) cells survive
Regrow(old, n) == [i \in 1..n |-> IF i <= Len(old) THEN old[i] ELSE Uninit]

\* ------------------------------------------------------------- constants
k_initialSliceCapacity == 2
k_initialTensorCapacity == 2

ErrNone == "Error_None"
ErrOutOfMemory == "Error_OutOfMemory"
ErrIllegalParam == "Error_IllegalParamValue"

\* An allocation environment: allocation attempts are numbered from 1 in
\* the order the operation makes them; attempt number failAt fails
\* (failAt = 0: none fails).
AllocOk(failAt, nAllocs) == nAllocs + 1 # failAt

\* ---------------------------------------------------------------- Tensor
Allocate(cDimensionsMax, cScoresArg) ==
  [ m_cScores |-> cScoresArg,
    m_cDimensions |-> cDimensionsMax,
    m_bExpanded |-> FALSE,
    m_aTensorScores |->
      [i \in 1..(k_initialTensorCapacity * cScoresArg) |->
         IF i <= cScoresArg THEN 0 ELSE Uninit],
    m_aDimensions |->
      [d \in 1..cDimensionsMax |->
         [ m_cSlices |-> 1,
           m_cSliceCapacity |-> k_initialSliceCapacity,
           m_aSplits |-> Fresh(k_initialSliceCapacity - 1) ]] ]

\* only the first score is zeroed
ZeroFirst_One(buf, n) == [i \in 1..Len(buf) |-> IF i <= 1 THEN 0 ELSE buf[i]]

ZeroFirst(buf, n) == [i \in 1..Len(buf) |-> IF i <= n THEN 0 ELSE buf[i]]

Reset(t) ==
  [t EXCEPT
     !.m_aDimensions =
        [d \in 1..t.m_cDimensions |-> [t.m_aDimensions[d] EXCEPT !.m_cSlices = 1]],
     !.m_aTensorScores = ZeroFirst(t.m_aTensorScores, t.m_cScores),
     !.m_bExpanded = FALSE]

\* Results of the fallible operations: the tensor, the error code and the
\* number of allocation attempts made so far.
\* ub is set when the operation read or wrote outside a buffer.
Res(t, err, nAllocs) == [t |-> t, err |-> err, nAllocs |-> nAllocs, ub |-> FALSE]

\* the half is taken instead of added
GrowSplitCapacity_Half(cSplits) == cSplits \div 2

GrowSplitCapacity(cSplits) == cSplits + (cSplits \div 2)

SetCountSlices(t, iDimension, cSlices, failAt, nAllocs) ==
  LET dim == t.m_aDimensions[iDimension]
      cSplits == cSlices - 1
      cNewSplitCapacity == GrowSplitCapacity(cSplits)
  IN IF dim.m_cSliceCapacity < cSlices
     THEN IF IsAddError(cSplits, cSplits \div 2)
          THEN Res(t, ErrOutOfMemory, nAllocs)
          ELSE IF IsMultiplyError(SizeofUIntSplit, cNewSplitCapacity)
          THEN Res(t, ErrOutOfMemory, nAllocs)
          ELSE IF ~AllocOk(failAt, nAllocs)
          THEN Res(t, ErrOutOfMemory, nAllocs + 1)
          ELSE Res([t EXCEPT !.m_aDimensions[iDimension] =
                      [ m_cSlices |-> cSlices,
                        m_cSliceCapacity |-> cNewSplitCapacity + 1,
                        m_aSplits |-> Regrow(dim.m_aSplits, cNewSplitCapacity) ]],
                   ErrNone, nAllocs + 1)
     ELSE Res([t EXCEPT !.m_aDimensions[iDimension].m_cSlices = cSlices],
              ErrNone, nAllocs)

\* AlignedGrow(&p, &cOldBytes, cRequired, keep): grows to cRequired plus a
\* half when the capacity is too small, copying the old content.
AlignedGrow(t, cRequired, failAt, nAllocs) ==
  IF Len(t.m_aTensorScores) < cRequired
  THEN IF IsAddError(cRequired, cRequired \div 2)
       THEN Res(t, ErrOutOfMemory, nAllocs)
       ELSE IF ~AllocOk(failAt, nAllocs)
       THEN Res(t, ErrOutOfMemory, nAllocs + 1)
       ELSE Res([t EXCEPT !.m_aTensorScores =
                   Regrow(t.m_aTensorScores, cRequired + (cRequired \div 2))],
                ErrNone, nAllocs + 1)
  ELSE Res(t, ErrNone, nAllocs)

EnsureTensorScoreCapacity(t, cTensorScores, failAt, nAllocs) ==
  IF IsMultiplyError(SizeofFloatScore, cTensorScores)
  THEN Res(t, ErrOutOfMemory, nAllocs)
  ELSE AlignedGrow(t, cTensorScores, failAt, nAllocs)

\* Product of the slice counts of the first n dimensions of a dimension array.
RECURSIVE SlicesProduct(_, _)
SlicesProduct(dims, n) ==
  IF n = 0 THEN 1 ELSE dims[n].m_cSlices * SlicesProduct(dims, n - 1)

RECURSIVE SeqProduct(_, _)
SeqProduct(s, n) == IF n = 0 THEN 1 ELSE s[n] * SeqProduct(s, n - 1)

\* ------------------------------------------------------------ Tensor::Add
\* D = 0: the S scores are added in place.
RECURSIVE AddZeroDim(_, _, _, _)
AddZeroDim(to, from, i, cScoresArg) ==
  IF i = cScoresArg THEN to
  ELSE AddZeroDim(Put(to, i, FAdd(At(to, i), At(from, i))), from, i + 1, cScoresArg)

\* The forward counting pass over one dimension: p1End and p2End are the
\* numbers of splits of the two sides, p1Cur and p2Cur the read positions.
\* a split of rhs equal to the split of self is not passed
CountMove2_Strict(d1, d2) == d2 < d1

\* p1Cur moves when d1 <= d2, p2Cur when d2 <= d1: both on equal splits
CountMove1(d1, d2) == d1 <= d2
CountMove2(d1, d2) == d2 <= d1

RECURSIVE CountNewSlices(_, _, _, _, _, _, _)
CountNewSlices(aSplits1, p1End, aSplits2, p2End, p1Cur, p2Cur, cNew) ==
  IF p2End = p2Cur THEN cNew + (p1End - p1Cur)
  ELSE IF p1End = p1Cur THEN cNew + (p2End - p2Cur)
  ELSE LET d1 == At(aSplits1, p1Cur)
           d2 == At(aSplits2, p2Cur)
       IN CountNewSlices(aSplits1, p1End, aSplits2, p2End,
                         IF CountMove1(d1, d2) THEN p1Cur + 1 ELSE p1Cur,
                         IF CountMove2(d1, d2) THEN p2Cur + 1 ELSE p2Cur,
                         cNew + 1)

\* a split that both sides have is counted twice
AddCountDimension_Sum(dim1, dim2) == dim1.m_cSlices + dim2.m_cSlices - 1

AddCountDimension(dim1, dim2) ==
  CountNewSlices(dim1.m_aSplits, dim1.m_cSlices - 1,
                 dim2.m_aSplits, dim2.m_cSlices - 1, 0, 0, 1)

\* One cell of the reverse score traversal: S scores are written below
\* pTensorScoreTop from the S scores below pTensorScore1 and pTensorScore2.
RECURSIVE AddCopyCell(_, _, _, _)
AddCopyCell(it, aScores2, k, cScoresArg) ==
  IF k > cScoresArg THEN [it EXCEPT !.top = it.top - cScoresArg]
  ELSE LET src1 == it.p1 - k
           src2 == it.p2 - k
           dst == it.top - k
       IN AddCopyCell(
            [it EXCEPT
               !.buf = Put(it.buf, dst, FAdd(At(it.buf, src1), At(aScores2, src2))),
               !.ub = it.ub \/ ~InBuf(it.buf, src1) \/ ~InBuf(aScores2, src2)
                        \/ ~InBuf(it.buf, dst),
               !.clobber = it.clobber \/ dst < src1],
            aScores2, k + 1, cScoresArg)

\* A strict comparison: on equal splits only the other side moves.
AddMove1_Strict(d1, d2) == d2 < d1

\* The stepping rule: which side moves one slice to the left.
AddMove1(d1, d2) == d2 <= d1
AddMove2(d1, d2) == d1 <= d2

\* The dimension loop that follows a cell: moves the source pointers to the
\* cell that comes before, carrying into higher dimensions.
RECURSIVE AddAdvance(_, _, _, _, _, _)
AddAdvance(it, aDimension1, aDimension2, d, multiplication1, multiplication2) ==
  IF d > Len(aDimension1) THEN [it EXCEPT !.ub = TRUE]
  ELSE
  LET pSplit1 == it.stk[d].m_pSplit1
      pSplit2 == it.stk[d].m_pSplit2
      aSplits1 == aDimension1[d].m_aSplits
      aSplits2 == aDimension2[d].m_aSplits
  IN IF 0 < pSplit1
     THEN IF 0 < pSplit2
          THEN LET d1 == At(aSplits1, pSplit1 - 1)
                   d2 == At(aSplits2, pSplit2 - 1)
                   bMove1 == AddMove1(d1, d2)
                   bMove2 == AddMove2(d1, d2)
               IN [it EXCEPT
                     !.stk[d].m_pSplit1 = IF bMove1 THEN pSplit1 - 1 ELSE pSplit1,
                     !.p1 = IF bMove1 THEN it.p1 - multiplication1 ELSE it.p1,
                     !.stk[d].m_pSplit2 = IF bMove2 THEN pSplit2 - 1 ELSE pSplit2,
                     !.p2 = IF bMove2 THEN it.p2 - multiplication2 ELSE it.p2,
                     !.ub = it.ub \/ ~InBuf(aSplits1, pSplit1 - 1)
                              \/ ~InBuf(aSplits2, pSplit2 - 1)]
          ELSE [it EXCEPT !.p1 = it.p1 - multiplication1,
                          !.stk[d].m_pSplit1 = pSplit1 - 1]
     ELSE IF 0 < pSplit2
          THEN [it EXCEPT !.p2 = it.p2 - multiplication2,
                          !.stk[d].m_pSplit2 = pSplit2 - 1]
          ELSE LET cSlices1 == aDimension1[d].m_cSlices
                   cSlices2 == aDimension2[d].m_cSlices
               IN AddAdvance(
                    [it EXCEPT
                       !.p1 = it.p1 - multiplication1 + multiplication1 * cSlices1,
                       !.p2 = it.p2 - multiplication2 + multiplication2 * cSlices2,
                       !.stk[d].m_pSplit1 = cSlices1 - 1,
                       !.stk[d].m_pSplit2 = cSlices2 - 1],
                    aDimension1, aDimension2, d + 1,
                    multiplication1 * cSlices1, multiplication2 * cSlices2)

\* The reverse traversal of the scores, until the write pointer is at the
\* base of the buffer.  cells counts the cells written.
RECURSIVE AddTraverse(_, _, _, _, _)
AddTraverse(it, aScores2, aDimension1, aDimension2, cScoresArg) ==
  LET it1 == AddCopyCell(it, aScores2, 1, cScoresArg)
      it2 == [it1 EXCEPT !.cells = it1.cells + 1]
  IN IF it2.top = 0 \/ it2.top < 0 \/ it2.ub THEN [it2 EXCEPT !.ub = it2.ub \/ it2.top < 0]
     ELSE AddTraverse(
            AddAdvance(it2, aDimension1, aDimension2, 1, cScoresArg, cScoresArg),
            aScores2, aDimension1, aDimension2, cScoresArg)

\* memcpy of the first n cells of src over dst
CopyPrefix(dst, src, n) ==
  [i \in 1..Len(dst) |-> IF i <= n THEN At(src, i - 1) ELSE dst[i]]

\* The smaller split is written instead of the larger.
MergePick_Smaller(d1, d2) == IF d1 <= d2 THEN d1 ELSE d2

\* The larger of the two splits read is the one written.
MergePick(d1, d2) == IF d1 <= d2 THEN d2 ELSE d1

\* the read position of self moves down at every step
MergeMove1_Always(d1, d2) == TRUE

\* which read position of the merge moves down: both on equal splits
MergeMove1(d1, d2) == d2 <= d1
MergeMove2(d1, d2) == d1 <= d2

\* The reverse merge of the splits of one dimension, in place in aSplits1.
\* m = [buf, p1Cur, p2Cur, pTopCur, ub, clobber, written].
RECURSIVE MergeSplits(_, _)
MergeSplits(m, aSplits2) ==
  IF m.pTopCur = m.p1Cur THEN m
  ELSE IF m.pTopCur = m.p2Cur
  THEN [m EXCEPT !.buf = CopyPrefix(m.buf, aSplits2, m.pTopCur),
                 !.ub = m.ub \/ m.pTopCur > Len(m.buf) \/ m.pTopCur > Len(aSplits2),
                 !.written = m.written + m.pTopCur,
                 !.p1Cur = 0,
                 !.pTopCur = 0]
  ELSE IF m.pTopCur <= 0 \/ m.ub THEN [m EXCEPT !.ub = TRUE]
  ELSE LET d1 == At(m.buf, m.p1Cur - 1)
           d2 == At(aSplits2, m.p2Cur - 1)
       IN MergeSplits(
            [m EXCEPT
               !.p1Cur = IF MergeMove1(d1, d2) THEN m.p1Cur - 1 ELSE m.p1Cur,
               !.p2Cur = IF MergeMove2(d1, d2) THEN m.p2Cur - 1 ELSE m.p2Cur,
               !.pTopCur = m.pTopCur - 1,
               !.buf = Put(m.buf, m.pTopCur - 1, MergePick(d1, d2)),
               !.written = m.written + 1,
               !.clobber = m.clobber \/ m.pTopCur - 1 < m.p1Cur - 1,
               !.ub = m.ub \/ ~InBuf(m.buf, m.p1Cur - 1)
                        \/ ~InBuf(aSplits2, m.p2Cur - 1)
                        \/ ~InBuf(m.buf, m.pTopCur - 1)],
            aSplits2)

\* The result of Add: Res plus what the passes did.  cNewSlices[d] is the
\* count of the forward pass, written[d] the number of splits the reverse
\* merge stored (one by one or by memcpy), kept[d] the number of splits of
\* self it left in place, cells the number of cells the score pass wrote.
AddRes(t, err, nAllocs, ub, clobber, cNewSlices, written, kept, cells) ==
  [t |-> t, err |-> err, nAllocs |-> nAllocs, ub |-> ub, clobber |-> clobber,
   cNewSlices |-> cNewSlices, written |-> written, kept |-> kept, cells |-> cells]

\* The split pass of Add, dimension by dimension from iDimension.
RECURSIVE AddSplits(_, _, _, _, _)
AddSplits(r, rhs, iDimension, failAt, cDims) ==
  IF iDimension > cDims \/ r.err # ErrNone THEN r
  ELSE
  LET cNewSlices == r.cNewSlices[iDimension]
      cOriginalSlicesBeforeSetting == r.t.m_aDimensions[iDimension].m_cSlices
      s == SetCountSlices(r.t, iDimension, cNewSlices, failAt, r.nAllocs)
  IN IF s.err # ErrNone
     THEN [r EXCEPT !.t = s.t, !.err = s.err, !.nAllocs = s.nAllocs]
     ELSE LET dim2 == rhs.m_aDimensions[iDimension]
              m0 == [ buf |-> s.t.m_aDimensions[iDimension].m_aSplits,
                      p1Cur |-> cOriginalSlicesBeforeSetting - 1,
                      p2Cur |-> dim2.m_cSlices - 1,
                      pTopCur |-> cNewSlices - 1,
                      ub |-> FALSE, clobber |-> FALSE, written |-> 0 ]
              m == MergeSplits(m0, dim2.m_aSplits)
          IN AddSplits(
               [r EXCEPT
                  !.t = [s.t EXCEPT !.m_aDimensions[iDimension].m_aSplits = m.buf],
                  !.nAllocs = s.nAllocs,
                  !.ub = r.ub \/ m.ub,
                  !.clobber = r.clobber \/ m.clobber,
                  !.written = [r.written EXCEPT ![iDimension] = m.written],
                  !.kept = [r.kept EXCEPT ![iDimension] = m.p1Cur]],
               rhs, iDimension + 1, failAt, cDims)

Add(self, rhs, failAt) ==
  LET cDims == self.m_cDimensions
      cS == self.m_cScores
      none == [d \in 1..cDims |-> 0]
  IN IF cDims = 0
     THEN AddRes([self EXCEPT !.m_aTensorScores =
                    AddZeroDim(self.m_aTensorScores, rhs.m_aTensorScores, 0, cS)],
                 ErrNone, 0, FALSE, FALSE, none, none, none, 1)
     ELSE
     LET cNew == [d \in 1..cDims |->
                    AddCountDimension(self.m_aDimensions[d], rhs.m_aDimensions[d])]
         cTensorScores1 == cS * SlicesProduct(self.m_aDimensions, cDims)
         cTensorScores2 == cS * SlicesProduct(rhs.m_aDimensions, cDims)
         cNewTensorScores == cS * SeqProduct(cNew, cDims)
         e == EnsureTensorScoreCapacity(self, cNewTensorScores, failAt, 0)
     IN IF e.err # ErrNone
        THEN AddRes(e.t, e.err, e.nAllocs, FALSE, FALSE, cNew, none, none, 0)
        ELSE
        LET it0 == [ buf |-> e.t.m_aTensorScores,
                     p1 |-> cTensorScores1,
                     p2 |-> cTensorScores2,
                     top |-> cNewTensorScores,
                     stk |-> [d \in 1..cDims |->
                                [ m_pSplit1 |-> self.m_aDimensions[d].m_cSlices - 1,
                                  m_pSplit2 |-> rhs.m_aDimensions[d].m_cSlices - 1 ]],
                     ub |-> FALSE, clobber |-> FALSE, cells |-> 0 ]
            it == AddTraverse(it0, rhs.m_aTensorScores,
                              self.m_aDimensions, rhs.m_aDimensions, cS)
            \* the assertions after the loop: the pointers are back at the
            \* first cell
            back == it.top = 0 /\ it.p1 = cS /\ it.p2 = cS
        IN AddSplits(
             AddRes([e.t EXCEPT !.m_aTensorScores = it.buf], ErrNone, e.nAllocs,
                    it.ub \/ ~back, it.clobber, cNew, none, none, it.cells),
             rhs, 1, failAt, cDims)

\* --------------------------------------------------------- Tensor::Expand
\* One cell of the reverse traversal of Expand: S scores are copied.
RECURSIVE ExpandCopyCell(_, _, _)
ExpandCopyCell(it, k, cScoresArg) ==
  IF k > cScoresArg THEN [it EXCEPT !.top = it.top - cScoresArg]
  ELSE LET src1 == it.p1 - k
           dst == it.top - k
       IN ExpandCopyCell(
            [it EXCEPT
               !.buf = Put(it.buf, dst, At(it.buf, src1)),
               !.ub = it.ub \/ ~InBuf(it.buf, src1) \/ ~InBuf(it.buf, dst),
               !.clobber = it.clobber \/ dst < src1],
            k + 1, cScoresArg)

\* A strict comparison: the source moves one bin too late.
ExpandMove_Strict(iEdge2, d1) == iEdge2 < d1

\* The source moves one slice to the left when the bin that comes next
\* lies below the split at its left.
ExpandMove(iEdge2, d1) == iEdge2 <= d1

RECURSIVE ExpandAdvance(_, _, _, _)
ExpandAdvance(it, aDimension1, d, multiplication1) ==
  IF d > Len(aDimension1) \/ d > Len(it.stk) THEN [it EXCEPT !.ub = TRUE]
  ELSE
  LET pSplit1 == it.stk[d].m_pSplit1
      iEdge2 == it.stk[d].m_iEdge2
      aSplits1 == aDimension1[d].m_aSplits
  IN IF 0 < pSplit1
     THEN LET d1 == At(aSplits1, pSplit1 - 1)
              bMove == ExpandMove(iEdge2 - 1, d1)
          IN [it EXCEPT
                !.stk[d].m_pSplit1 = IF bMove THEN pSplit1 - 1 ELSE pSplit1,
                !.p1 = IF bMove THEN it.p1 - multiplication1 ELSE it.p1,
                !.stk[d].m_iEdge2 = iEdge2 - 1,
                !.ub = it.ub \/ ~InBuf(aSplits1, pSplit1 - 1)]
     ELSE IF 1 < iEdge2
          THEN [it EXCEPT !.stk[d].m_iEdge2 = iEdge2 - 1]
          ELSE LET cSlices1 == aDimension1[d].m_cSlices
               IN ExpandAdvance(
                    [it EXCEPT
                       !.p1 = it.p1 - multiplication1 + multiplication1 * cSlices1,
                       !.stk[d].m_pSplit1 = cSlices1 - 1,
                       !.stk[d].m_iEdge2 = it.stk[d].m_cNewSlices],
                    aDimension1, d + 1, multiplication1 * cSlices1)

RECURSIVE ExpandTraverse(_, _, _)
ExpandTraverse(it, aDimension1, cScoresArg) ==
  LET it1 == ExpandCopyCell(it, 1, cScoresArg)
      it2 == [it1 EXCEPT !.cells = it1.cells + 1]
  IN IF it2.top = 0 \/ it2.top < 0 \/ it2.ub THEN [it2 EXCEPT !.ub = it2.ub \/ it2.top < 0]
     ELSE ExpandTraverse(ExpandAdvance(it2, aDimension1, 1, cScoresArg),
                         aDimension1, cScoresArg)

\* The edges written from 0 instead of 1.
WriteEdges_ZeroBased(aSplit, cSlices) ==
  [i \in 1..Len(aSplit) |-> IF i <= cSlices - 1 THEN i - 1 ELSE aSplit[i]]

\* The splits 1, 2, ..., cSlices - 1 written from the front of the buffer.
WriteEdges(aSplit, cSlices) ==
  [i \in 1..Len(aSplit) |-> IF i <= cSlices - 1 THEN i ELSE aSplit[i]]

\* The split rewrite of Expand, dimension by dimension.
RECURSIVE ExpandSplits(_, _, _, _)
ExpandSplits(r, cBinsSeq, iDimension, failAt) ==
  IF iDimension > Len(cBinsSeq) \/ r.err # ErrNone THEN r
  ELSE
  LET cSlices == cBinsSeq[iDimension]
  IN IF cSlices # r.t.m_aDimensions[iDimension].m_cSlices
     THEN LET s == SetCountSlices(r.t, iDimension, cSlices, failAt, r.nAllocs)
          IN IF s.err # ErrNone
             THEN [r EXCEPT !.t = s.t, !.err = s.err, !.nAllocs = s.nAllocs]
             ELSE ExpandSplits(
                    [r EXCEPT
                       !.t = [s.t EXCEPT !.m_aDimensions[iDimension].m_aSplits =
                                WriteEdges(s.t.m_aDimensions[iDimension].m_aSplits, cSlices)],
                       !.nAllocs = s.nAllocs,
                       !.ub = r.ub \/ cSlices - 1 > Len(s.t.m_aDimensions[iDimension].m_aSplits),
                       !.written = [r.written EXCEPT ![iDimension] = cSlices - 1]],
                    cBinsSeq, iDimension + 1, failAt)
     ELSE ExpandSplits(r, cBinsSeq, iDimension + 1, failAt)

\* the flag is set on the failure paths too
SetExpanded_Always(r) == [r EXCEPT !.t.m_bExpanded = TRUE]

SetExpanded(r) ==
  IF r.err = ErrNone THEN [r EXCEPT !.t.m_bExpanded = TRUE] ELSE r

\* the test is left out
AlreadyExpanded_Never(self) == FALSE

\* an expanded tensor is returned as it is
AlreadyExpanded(self) == self.m_bExpanded

Expand(self, cBinsSeq, failAt) ==
  LET cDimensions == Len(cBinsSeq)
      cS == self.m_cScores
      none == [d \in 1..self.m_cDimensions |-> 0]
  IN IF AlreadyExpanded(self)
     THEN AddRes(self, ErrNone, 0, FALSE, FALSE, none, none, none, 0)
     ELSE IF cDimensions = 0
     THEN SetExpanded(AddRes(self, ErrNone, 0, FALSE, FALSE, none, none, none, 0))
     ELSE
     LET cTensorScores1 == cS * SlicesProduct(self.m_aDimensions, cDimensions)
         cNewTensorScores == cS * SeqProduct(cBinsSeq, cDimensions)
         e == EnsureTensorScoreCapacity(self, cNewTensorScores, failAt, 0)
     IN IF e.err # ErrNone
        THEN AddRes(e.t, e.err, e.nAllocs, FALSE, FALSE, none, none, none, 0)
        ELSE
        LET it0 == [ buf |-> e.t.m_aTensorScores,
                     p1 |-> cTensorScores1,
                     top |-> cNewTensorScores,
                     stk |-> [d \in 1..cDimensions |->
                                [ m_pSplit1 |-> self.m_aDimensions[d].m_cSlices - 1,
                                  m_iEdge2 |-> cBinsSeq[d],
                                  m_cNewSlices |-> cBinsSeq[d] ]],
                     ub |-> FALSE, clobber |-> FALSE, cells |-> 0 ]
            it == ExpandTraverse(it0, self.m_aDimensions, cS)
            back == it.top = 0 /\ it.p1 = cS
        IN SetExpanded(ExpandSplits(
             AddRes([e.t EXCEPT !.m_aTensorScores = it.buf], ErrNone, e.nAllocs,
                    it.ub \/ ~back, it.clobber, cBinsSeq, none, none, it.cells),
             cBinsSeq, 1, failAt))

\* ----------------------------------------------------------- Tensor::Copy
RECURSIVE CopyDims(_, _, _, _)
CopyDims(r, rhs, iDimension, failAt) ==
  IF iDimension > r.t.m_cDimensions \/ r.err # ErrNone THEN r
  ELSE
  LET cSlices == rhs.m_aDimensions[iDimension].m_cSlices
      s == SetCountSlices(r.t, iDimension, cSlices, failAt, r.nAllocs)
  IN IF s.err # ErrNone
     THEN [r EXCEPT !.t = s.t, !.err = s.err, !.nAllocs = s.nAllocs]
     ELSE CopyDims(
            [r EXCEPT
               !.t = [s.t EXCEPT !.m_aDimensions[iDimension].m_aSplits =
                        CopyPrefix(s.t.m_aDimensions[iDimension].m_aSplits,
                                   rhs.m_aDimensions[iDimension].m_aSplits, cSlices - 1)],
               !.nAllocs = s.nAllocs,
               !.written = [r.written EXCEPT ![iDimension] = cSlices - 1]],
            rhs, iDimension + 1, failAt)

Copy(self, rhs, failAt) ==
  LET none == [d \in 1..self.m_cDimensions |-> 0]
      cTensorScores == self.m_cScores * SlicesProduct(rhs.m_aDimensions, self.m_cDimensions)
      r == CopyDims(AddRes(self, ErrNone, 0, FALSE, FALSE, none, none, none, 0),
                    rhs, 1, failAt)
  IN IF r.err # ErrNone THEN r
     ELSE LET e == EnsureTensorScoreCapacity(r.t, cTensorScores, failAt, r.nAllocs)
          IN IF e.err # ErrNone
             THEN [r EXCEPT !.t = e.t, !.err = e.err, !.nAllocs = e.nAllocs]
             ELSE [r EXCEPT
                     !.t = [e.t EXCEPT
                              !.m_aTensorScores =
                                 CopyPrefix(e.t.m_aTensorScores, rhs.m_aTensorScores,
                                            cTensorScores),
                              !.m_bExpanded = rhs.m_bExpanded],
                     !.nAllocs = e.nAllocs,
                     !.ub = cTensorScores > Len(rhs.m_aTensorScores),
                     !.cells = cTensorScores \div self.m_cScores]

\* ------------------------------------- Tensor::MultiplyAndCheckForIssues
\* Every live score is multiplied by v and written back; bBad tells whether
\* a product was NaN or infinite.
\* only NaN is reported
IsBadScore_OnlyNaN(val) == IsNaN(val)

\* bBad |= std::isnan(val) || std::isinf(val)
IsBadScore(val) == IsNaN(val) \/ IsInf(val)

MultiplyAndCheckForIssues(t, v) ==
  LET cTensorScores == t.m_cScores * SlicesProduct(t.m_aDimensions, t.m_cDimensions)
      val(i) == FMul(At(t.m_aTensorScores, i), v)
  IN [ t |-> [t EXCEPT !.m_aTensorScores =
                 [i \in 1..Len(t.m_aTensorScores) |->
                    IF i <= cTensorScores THEN val(i - 1) ELSE t.m_aTensorScores[i]]],
       bBad |-> \E i \in 0..(cTensorScores - 1) : IsBadScore(val(i)),
       ub |-> cTensorScores > Len(t.m_aTensorScores),
       cells |-> cTensorScores \div t.m_cScores ]

\* ------------------------------ Tensor::AddExpandedWithBadValueProtection
\* score <= lowest() ? lowest() : score, then max() <= score ? max() : score;
\* a comparison with NaN is false, and a cell never written stays so
ClampLowest(score) ==
  IF score = Uninit THEN Uninit
  ELSE IF FLe(score, 0 - FMax) THEN 0 - FMax ELSE score
ClampMax(score) ==
  IF score = Uninit THEN Uninit
  ELSE IF FLe(FMax, score) THEN FMax ELSE score

\* the addend of cell i: the array repeats the values of pat
AddendAt(pat, i) == pat[(i % Len(pat)) + 1]

\* One score: a NaN addend counts as 0, the sum is clamped.
AddProtected(to, from) ==
  ClampMax(ClampLowest(FAdd(to, IF IsNaN(from) THEN 0 ELSE from)))

AddExpandedWithBadValueProtection(t, pat) ==
  LET cItems == t.m_cScores * SlicesProduct(t.m_aDimensions, t.m_cDimensions)
  IN [ t |-> [t EXCEPT !.m_aTensorScores =
                 [i \in 1..Len(t.m_aTensorScores) |->
                    IF i <= cItems
                    THEN AddProtected(t.m_aTensorScores[i], AddendAt(pat, i - 1))
                    ELSE t.m_aTensorScores[i]]],
       ub |-> cItems > Len(t.m_aTensorScores),
       cells |-> cItems \div t.m_cScores ]

\* -------------------------------------------------------- Tensor::IsEqual
\* the comparison of two floats: NaN differs from everything
FNe(x, y) == IsNaN(x) \/ IsNaN(y) \/ x # y

\* The dimensions are compared in turn, then the scores of the cells that
\* the slice counts of self give.
RECURSIVE IsEqualDims(_, _, _, _)
IsEqualDims(self, rhs, iDimension, cTensorScores) ==
  IF iDimension > self.m_cDimensions
  THEN \A i \in 0..(cTensorScores - 1) :
          ~FNe(At(self.m_aTensorScores, i), At(rhs.m_aTensorScores, i))
  ELSE LET pDimension1 == self.m_aDimensions[iDimension]
           pDimension2 == rhs.m_aDimensions[iDimension]
           cSlices == pDimension1.m_cSlices
       IN IF cSlices # pDimension2.m_cSlices THEN FALSE
          ELSE IF \E k \in 0..(cSlices - 2) :
                    At(pDimension1.m_aSplits, k) # At(pDimension2.m_aSplits, k)
          THEN FALSE
          ELSE IsEqualDims(self, rhs, iDimension + 1, cTensorScores * cSlices)

IsEqual(self, rhs) ==
  IF self.m_cDimensions # rhs.m_cDimensions THEN FALSE
  ELSE IsEqualDims(self, rhs, 1, self.m_cScores)

\* ------------------------------------------------- the caller's tensor fill
\* The boosting code fills a tensor that is in the state Reset leaves
\* through SetCountSlices, the split pointer, EnsureTensorScoreCapacity and
\* the score pointer: it sets the splits of each dimension to a strictly
\* increasing list of bin indexes and writes every live score.
IsReset(t) ==
  /\ ~t.m_bExpanded
  /\ \A d \in 1..t.m_cDimensions : t.m_aDimensions[d].m_cSlices = 1
  /\ \A i \in 0..(t.m_cScores - 1) : At(t.m_aTensorScores, i) = 0

RECURSIVE SortedSeq(_)
SortedSeq(S) ==
  IF S = {} THEN << >>
  ELSE LET m == CHOOSE x \in S : \A y \in S : x <= y
       IN << m >> \o SortedSeq(S \ {m})

RECURSIVE PopulateDims(_, _, _)
PopulateDims(t, splitSets, iDimension) ==
  IF iDimension > t.m_cDimensions THEN t
  ELSE LET sp == SortedSeq(splitSets[iDimension])
           s == SetCountSlices(t, iDimension, Len(sp) + 1, 0, 0)
       IN PopulateDims(
            [s.t EXCEPT !.m_aDimensions[iDimension].m_aSplits =
               CopyPrefix(s.t.m_aDimensions[iDimension].m_aSplits, sp, Len(sp))],
            splitSets, iDimension + 1)

\* score number i (from 0) of the fill pattern with the given base
PatternScore(base, i) == base * (i + 1)

Populate(t, splitSets, base) ==
  LET t1 == PopulateDims(t, splitSets, 1)
      cTensorScores == t.m_cScores * SlicesProduct(t1.m_aDimensions, t.m_cDimensions)
      e == EnsureTensorScoreCapacity(t1, cTensorScores, 0, 0)
  IN [e.t EXCEPT !.m_aTensorScores =
        [i \in 1..Len(e.t.m_aTensorScores) |->
           IF i <= cTensorScores THEN PatternScore(base, i - 1)
           ELSE e.t.m_aTensorScores[i]]]

\* --------------------------------------------------------------- sampling
\* The slice of a dimension that holds bin b: the number of live splits
\* that are <= b.
SliceOf(dim, b) ==
  Cardinality({k \in 1..(dim.m_cSlices - 1) : At(dim.m_aSplits, k - 1) <= b})

\* Offset (in cells) of the cell that holds the bin coordinate c, from
\* dimension d on: sum of slice(d) * product of the slice counts below d.
RECURSIVE CellOffset(_, _, _)
CellOffset(t, c, d) ==
  IF d > t.m_cDimensions THEN 0
  ELSE SliceOf(t.m_aDimensions[d], c[d])
       + t.m_aDimensions[d].m_cSlices * CellOffset(t, c, d + 1)

\* Score number j (from 0) of t at the bin coordinate c.
Sample(t, c, j) == At(t.m_aTensorScores, t.m_cScores * CellOffset(t, c, 1) + j)

CountLive(t) == t.m_cScores * SlicesProduct(t.m_aDimensions, t.m_cDimensions)

\* Live splits of a dimension, as a sequence and as a set.
LiveSplits(dim) == [k \in 1..(dim.m_cSlices - 1) |-> At(dim.m_aSplits, k - 1)]
LiveSplitSet(dim) == {At(dim.m_aSplits, k - 1) : k \in 1..(dim.m_cSlices - 1)}

StrictlyIncreasing(sq) == \A k \in 1..(Len(sq) - 1) : sq[k] < sq[k + 1]

\* The precondition of the tensor operations: in every dimension the live
\* splits fit the buffer, are strictly increasing and lie in (0, bins), and
\* the live scores fit the score buffer and were all written.
WellFormed(t, cBinsSeq) ==
  /\ \A d \in 1..t.m_cDimensions :
       LET dim == t.m_aDimensions[d]
       IN /\ dim.m_cSlices >= 1
          /\ dim.m_cSlices - 1 <= Len(dim.m_aSplits)
          /\ StrictlyIncreasing(LiveSplits(dim))
          /\ \A x \in LiveSplitSet(dim) : 0 < x /\ x < cBinsSeq[d]
  /\ CountLive(t) <= Len(t.m_aTensorScores)
  /\ \A i \in 0..(CountLive(t) - 1) : At(t.m_aTensorScores, i) # Uninit

\* ------------------------------------------------- the tensor state machine
\* cBins: the bin counts of the features of the term; tensors: the two
\* tensors; last: the last operation; nOps: the number of operations so far.
VARIABLES cBins, tensors, last, nOps
\* The variables of a call of CalcInteractionStrength: its inputs, the
\* position in the code, the value behind the output pointer, the return
\* code, the locals and the calls made to the collaborators.
VARIABLES call, pc, out, ret, loc, trace

tvars == << cBins, tensors, last, nOps >>
ivars == << call, pc, out, ret, loc, trace >>
vars == << cBins, tensors, last, nOps, call, pc, out, ret, loc, trace >>

TensorIds == {"a", "b"}
\* the fill pattern of each tensor: distinct scores in every cell, and sums
\* of an "a" score and a "b" score that tell the two cells
PatternBase == [a |-> 1, b |-> 20]

NoSeq(n) == [d \in 1..n |-> 0]

\* What the last operation was and did; pre is the tensors before it.
LastRec(op, self, rhs, r, pre) ==
  [ op |-> op, self |-> self, rhs |-> rhs, err |-> r.err, ub |-> r.ub,
    clobber |-> r.clobber, cNewSlices |-> r.cNewSlices, written |-> r.written,
    kept |-> r.kept, cells |-> r.cells, nAllocs |-> r.nAllocs, pre |-> pre,
    bBad |-> IF "bBad" \in DOMAIN r THEN r.bBad ELSE FALSE,
    v |-> IF "v" \in DOMAIN r THEN r.v ELSE 0,
    pat |-> IF "pat" \in DOMAIN r THEN r.pat ELSE << >> ]

PlainRes(t, n) == AddRes(t, ErrNone, 0, FALSE, FALSE, NoSeq(n), NoSeq(n), NoSeq(n), 0)

TensorInit ==
  \E cDims \in 0..MaxDims : \E cS \in 1..MaxScores :
    \E bins \in [1..cDims -> 1..MaxBins] :
      /\ cBins = bins
      /\ tensors = [id \in TensorIds |-> Allocate(cDims, cS)]
      /\ last = LastRec("Allocate", "a", "a",
                        PlainRes(Allocate(cDims, cS), cDims),
                        [id \in TensorIds |-> Allocate(cDims, cS)])
      /\ nOps = 0

cDimensions == Len(cBins)
FailAts == 0..(cDimensions + 1)

Effect(op, self, rhs, r) ==
  /\ tensors' = [tensors EXCEPT ![self] = r.t]
  /\ last' = LastRec(op, self, rhs, r, tensors)
  /\ UNCHANGED cBins
  /\ UNCHANGED ivars

\* An operation of the tensor: at most MaxOps of them in a run.
Step(op, self, rhs, r) ==
  /\ nOps < MaxOps
  /\ nOps' = nOps + 1
  /\ Effect(op, self, rhs, r)

DoReset(self) ==
  Step("Reset", self, self, PlainRes(Reset(tensors[self]), cDimensions))

DoPopulate(self) ==
  \E splitSets \in [1..cDimensions -> SUBSET (1..(MaxBins - 1))] :
    /\ nOps = 0
    /\ IsReset(tensors[self])
    /\ \A d \in 1..cDimensions : splitSets[d] \subseteq 1..(cBins[d] - 1)
    /\ Effect("Populate", self, self,
              PlainRes(Populate(tensors[self], splitSets, PatternBase[self]),
                       cDimensions))
    /\ UNCHANGED nOps

DoCopy(self, rhs) ==
  \E failAt \in FailAts :
    /\ self # rhs
    /\ Step("Copy", self, rhs, Copy(tensors[self], tensors[rhs], failAt))

DoExpand(self) ==
  \E failAt \in FailAts :
    Step("Expand", self, self, Expand(tensors[self], cBins, failAt))

DoAdd(self, rhs) ==
  \E failAt \in FailAts :
    /\ self # rhs
    /\ Step("Add", self, rhs, Add(tensors[self], tensors[rhs], failAt))

\* the factors of MultiplyAndCheckForIssues
MultiplyValues == {2, FMax, NaN}

DoMultiply(self) ==
  \E v \in MultiplyValues :
    LET m == MultiplyAndCheckForIssues(tensors[self], v)
    IN Step("Multiply", self, self,
            [PlainRes(m.t, cDimensions) EXCEPT !.ub = m.ub, !.cells = m.cells]
              @@ [bBad |-> m.bBad, v |-> v])

\* the slice counts that callers ask for: two, one more than the bins
\* and as many as size_t can count
SliceCountValues == {2, MaxBins + 1, SizeMax}

\* SetCountSlices called from outside; the caller keeps to its assertion
\* that an expanded tensor is not grown.  What the caller writes into the
\* tensor after the call is not followed: the run ends with the call.
DoSetCountSlices(self) ==
  \E iDimension \in 1..cDimensions : \E cSlices \in SliceCountValues :
    \E failAt \in 0..1 :
      /\ ~tensors[self].m_bExpanded
           \/ cSlices <= tensors[self].m_aDimensions[iDimension].m_cSlices
      /\ nOps < MaxOps
      /\ nOps' = MaxOps
      /\ LET s == SetCountSlices(tensors[self], iDimension, cSlices, failAt, 0)
         IN Effect("SetCountSlices", self, self,
                   [PlainRes(s.t, cDimensions) EXCEPT
                      !.err = s.err, !.nAllocs = s.nAllocs,
                      !.cNewSlices = [@ EXCEPT ![iDimension] = cSlices]])

\* The operations, and SetCountSlices by itself: between the call and the
\* caller's writes the new live splits and scores are not written yet.
TensorSlicesNext ==
  \/ \E self \in TensorIds : DoSetCountSlices(self)
  \/ \E self \in TensorIds : DoMultiply(self)
  \/ \E self \in TensorIds : DoReset(self)
  \/ \E self \in TensorIds : DoPopulate(self)
  \/ \E self \in TensorIds : \E rhs \in TensorIds : DoCopy(self, rhs)
  \/ \E self \in TensorIds : DoExpand(self)
  \/ \E self \in TensorIds : \E rhs \in TensorIds : DoAdd(self, rhs)

\* the addend arrays of AddExpandedWithBadValueProtection
AddendPatterns == {<<1, NaN>>, <<PInf, NInf>>, <<FMax, 0 - FMax>>}

\* AddExpandedWithBadValueProtection on an expanded tensor (its assertion),
\* as the operation that ends the run.
DoAddExpanded(self) ==
  \E pat \in AddendPatterns :
    /\ tensors[self].m_bExpanded
    /\ nOps <= MaxOps
    /\ nOps' = MaxOps + 1
    /\ LET x == AddExpandedWithBadValueProtection(tensors[self], pat)
       IN Effect("AddExpanded", self, self,
                 [PlainRes(x.t, cDimensions) EXCEPT !.ub = x.ub, !.cells = x.cells]
                   @@ [pat |-> pat])

\* The operations, and AddExpandedWithBadValueProtection after them.
TensorClampedNext ==
  \/ \E self \in TensorIds : DoAddExpanded(self)
  \/ \E self \in TensorIds : DoMultiply(self)
  \/ \E self \in TensorIds : DoReset(self)
  \/ \E self \in TensorIds : DoPopulate(self)
  \/ \E self \in TensorIds : \E rhs \in TensorIds : DoCopy(self, rhs)
  \/ \E self \in TensorIds : DoExpand(self)
  \/ \E self \in TensorIds : \E rhs \in TensorIds : DoAdd(self, rhs)

TensorNext ==
  \/ \E self \in TensorIds : DoMultiply(self)
  \/ \E self \in TensorIds : DoReset(self)
  \/ \E self \in TensorIds : DoPopulate(self)
  \/ \E self \in TensorIds : \E rhs \in TensorIds : DoCopy(self, rhs)
  \/ \E self \in TensorIds : DoExpand(self)
  \/ \E self \in TensorIds : \E rhs \in TensorIds : DoAdd(self, rhs)


\* ------------------------------------------------------ the tensor claims
\* The bin coordinates of the feature group.
Coords == {c \in [1..cDimensions -> 0..(MaxBins - 1)] :
             \A d \in 1..cDimensions : c[d] < cBins[d]}

cScores == tensors["a"].m_cScores
ScoreIdx == 0..(cScores - 1)

LastOk(op) == last.op = op /\ last.err = ErrNone
PreSelf == last.pre[last.self]
PreRhs == last.pre[last.rhs]
NowSelf == tensors[last.self]

\* C1: after a.add(b) returned Ok on two tensors of the same D and S whose
\* splits are strictly increasing, the scores of a sampled at every bin
\* coordinate are the scores of the old a plus the scores of b there.
C1_AddSamplesSum ==
  (LastOk("Add") /\ WellFormed(PreSelf, cBins) /\ WellFormed(PreRhs, cBins)) =>
    \A c \in Coords : \A j \in ScoreIdx :
      Sample(NowSelf, c, j) = FAdd(Sample(PreSelf, c, j), Sample(PreRhs, c, j))

\* A two-dimensional add that refined both operands in some dimension.
C1_Witness ==
  /\ LastOk("Add") /\ cDimensions = 2
  /\ WellFormed(PreSelf, cBins) /\ WellFormed(PreRhs, cBins)
  /\ \E d \in 1..2 :
       /\ NowSelf.m_aDimensions[d].m_cSlices > PreSelf.m_aDimensions[d].m_cSlices
       /\ NowSelf.m_aDimensions[d].m_cSlices > PreRhs.m_aDimensions[d].m_cSlices
       /\ PreSelf.m_aDimensions[d].m_cSlices > 1
  /\ \E d \in 1..2 : PreSelf.m_aDimensions[d].m_cSlices = 1
                     /\ PreRhs.m_aDimensions[d].m_cSlices > 1

\* C2: after a.add(b) returned Ok, in every dimension the splits of a are
\* the sorted union of the old splits of a and the splits of b, the slice
\* count is the size of the union plus one and at most the sum of the two
\* old slice counts minus one, and the count of the forward pass is what
\* the reverse merge pass laid down (stored plus left in place).
C2_AddSplitsUnion ==
  (LastOk("Add") /\ WellFormed(PreSelf, cBins) /\ WellFormed(PreRhs, cBins)) =>
    \A d \in 1..cDimensions :
      LET old1 == PreSelf.m_aDimensions[d]
          old2 == PreRhs.m_aDimensions[d]
          new == NowSelf.m_aDimensions[d]
          union == LiveSplitSet(old1) \cup LiveSplitSet(old2)
      IN /\ LiveSplits(new) = SortedSeq(union)
         /\ new.m_cSlices = Cardinality(union) + 1
         /\ new.m_cSlices <= old1.m_cSlices + old2.m_cSlices - 1
         /\ last.cNewSlices[d] = new.m_cSlices
         /\ last.written[d] + last.kept[d] = last.cNewSlices[d] - 1

\* An add whose merge interleaved: splits of both sides in the result, a
\* shared split and a split stored one by one.
C2_Witness ==
  /\ LastOk("Add") /\ cDimensions >= 1
  /\ WellFormed(PreSelf, cBins) /\ WellFormed(PreRhs, cBins)
  /\ \E d \in 1..cDimensions :
       /\ LiveSplitSet(PreSelf.m_aDimensions[d]) \ LiveSplitSet(PreRhs.m_aDimensions[d]) # {}
       /\ LiveSplitSet(PreRhs.m_aDimensions[d]) \ LiveSplitSet(PreSelf.m_aDimensions[d]) # {}
       /\ last.written[d] >= 1
       /\ NowSelf.m_aDimensions[d].m_cSlices >= 3
  /\ \E d \in 1..cDimensions :
       LiveSplitSet(PreSelf.m_aDimensions[d]) \cap LiveSplitSet(PreRhs.m_aDimensions[d]) # {}

\* Offset (in cells) of the bin coordinate c in the dense grid.
RECURSIVE DenseOffset(_, _)
DenseOffset(c, d) ==
  IF d > cDimensions THEN 0 ELSE c[d] + cBins[d] * DenseOffset(c, d + 1)

\* C3: after expand returned Ok on a non-expanded tensor with strictly
\* increasing splits inside (0, bins), the scores stored at the dense cell
\* of every bin coordinate are the scores the old tensor had in the slice
\* that holds it.
C3_ExpandPreservesSamples ==
  (LastOk("Expand") /\ ~PreSelf.m_bExpanded /\ WellFormed(PreSelf, cBins)) =>
    \A c \in Coords : \A j \in ScoreIdx :
      At(NowSelf.m_aTensorScores, cScores * DenseOffset(c, 1) + j)
        = Sample(PreSelf, c, j)

\* An expand that broadcast: two dimensions, one with a split and more
\* bins than slices, more cells after than before.
C3_Witness ==
  /\ LastOk("Expand") /\ ~PreSelf.m_bExpanded /\ WellFormed(PreSelf, cBins)
  /\ cDimensions = 2
  /\ \E d \in 1..2 : /\ PreSelf.m_aDimensions[d].m_cSlices = 2
                     /\ cBins[d] = 3
  /\ last.cells > SlicesProduct(PreSelf.m_aDimensions, 2)

IsDense(t) ==
  \A d \in 1..cDimensions :
    /\ t.m_aDimensions[d].m_cSlices = cBins[d]
    /\ \A k \in 0..(cBins[d] - 2) : At(t.m_aDimensions[d].m_aSplits, k) = k + 1

\* C4: after expand returned Ok, every dimension has as many slices as
\* bins, its splits are 1, 2, ..., bins - 1 and the expanded flag is set;
\* also for the dimensions whose splits were not rewritten.
C4_ExpandDense ==
  LastOk("Expand") => (IsDense(NowSelf) /\ NowSelf.m_bExpanded)

\* An expand that rewrote one dimension and left alone another one that
\* had as many slices as bins already.
C4_Witness ==
  /\ LastOk("Expand") /\ ~PreSelf.m_bExpanded
  /\ \E d \in 1..cDimensions :
       /\ PreSelf.m_aDimensions[d].m_cSlices = cBins[d]
       /\ cBins[d] >= 2
       /\ last.written[d] = 0
  /\ \E d \in 1..cDimensions : last.written[d] >= 2

\* the live splits of a tensor are strictly increasing inside (0, bins) and
\* no dimension has more slices than bins
SplitsInv(t) ==
  \A d \in 1..cDimensions :
    LET dim == t.m_aDimensions[d]
    IN /\ StrictlyIncreasing(LiveSplits(dim))
       /\ \A x \in LiveSplitSet(dim) : 0 < x /\ x < cBins[d]
       /\ dim.m_cSlices <= cBins[d]

\* C14: from allocated tensors, after any sequence of reset, copy,
\* multiply, expand and add between tensors of the same feature group (and
\* of fills by the caller), in every tensor and dimension the live splits
\* are strictly increasing, lie in (0, bins), and the slices are at most the
\* bins.
C14_SplitsInvariant ==
  \A id \in TensorIds : SplitsInv(tensors[id])

\* An add of two tensors of two slices that made a slice per bin.
C14_Witness ==
  /\ LastOk("Add") /\ nOps = MaxOps
  /\ \E d \in 1..cDimensions :
       /\ PreSelf.m_aDimensions[d].m_cSlices = 2
       /\ PreRhs.m_aDimensions[d].m_cSlices = 2
       /\ NowSelf.m_aDimensions[d].m_cSlices = 3
       /\ cBins[d] = 3

\* the dimensions that the last operation left with fewer slices
Shrunk ==
  {d \in 1..cDimensions :
     NowSelf.m_aDimensions[d].m_cSlices < PreSelf.m_aDimensions[d].m_cSlices}

\* C15 as stated: after any sequence of the operations, SetCountSlices
\* among them, a tensor whose expanded flag is set is dense.
C15_ExpandedAlwaysDense ==
  \A id \in TensorIds : tensors[id].m_bExpanded => IsDense(tensors[id])

\* C15: after any sequence of allocate, reset, copy, multiply, expand and
\* add, successful or failed, a tensor whose expanded flag is set is dense;
\* SetCountSlices on an expanded tensor leaves it dense unless it takes
\* slices away.
C15_ExpandedDense ==
  \A id \in TensorIds :
    tensors[id].m_bExpanded =>
      \/ IsDense(tensors[id])
      \/ last.op = "SetCountSlices" /\ id = last.self /\ Shrunk # {}

\* An add of a sparse tensor with a split into an expanded tensor.
C15_Witness ==
  /\ LastOk("Add")
  /\ PreSelf.m_bExpanded /\ ~PreRhs.m_bExpanded
  /\ \E d \in 1..cDimensions : PreRhs.m_aDimensions[d].m_cSlices = 2 /\ cBins[d] = 3
  /\ NowSelf.m_bExpanded /\ IsDense(NowSelf)

\* the tensor represents the same step function with the same slices
SameFunction(t1, t2) ==
  /\ \A d \in 1..cDimensions :
       /\ t1.m_aDimensions[d].m_cSlices = t2.m_aDimensions[d].m_cSlices
       /\ LiveSplits(t1.m_aDimensions[d]) = LiveSplits(t2.m_aDimensions[d])
  /\ \A c \in Coords : \A j \in ScoreIdx : Sample(t1, c, j) = Sample(t2, c, j)

\* C16: when add, copy or expand returns OutOfMemory, the slice counts, the
\* live splits and the live scores of the tensor are those of before the
\* call.
C16_FailureKeepsTensor ==
  (/\ last.op \in {"Add", "Copy", "Expand"}
   /\ last.err = ErrOutOfMemory
   /\ WellFormed(PreSelf, cBins) /\ WellFormed(PreRhs, cBins))
  => SameFunction(NowSelf, PreSelf)

\* the dimension and the count of the last call of SetCountSlices
SetDim == CHOOSE d \in 1..cDimensions : last.cNewSlices[d] # 0
SetCount == last.cNewSlices[SetDim]

MinOf(x, y) == IF x < y THEN x ELSE y

\* C17: SetCountSlices(d, n) that returns OutOfMemory leaves the tensor as
\* it was; one that returns Ok leaves n slices in d, a capacity of n or
\* more and not below the old one, the first min(old, n) - 1 splits, the
\* other dimensions and the scores as they were, and when it grows the
\* buffer the split capacity is (n - 1) + (n - 1) / 2.
C17_SetCountSlices ==
  last.op = "SetCountSlices" =>
    LET old == PreSelf.m_aDimensions[SetDim]
        new == NowSelf.m_aDimensions[SetDim]
    IN IF last.err # ErrNone
       THEN last.err = ErrOutOfMemory /\ NowSelf = PreSelf
       ELSE /\ new.m_cSlices = SetCount
            /\ new.m_cSliceCapacity >= SetCount
            /\ new.m_cSliceCapacity >= old.m_cSliceCapacity
            /\ Len(new.m_aSplits) >= Len(old.m_aSplits)
            /\ \A k \in 0..(MinOf(old.m_cSlices, SetCount) - 2) :
                 At(new.m_aSplits, k) = At(old.m_aSplits, k)
            /\ old.m_cSliceCapacity < SetCount =>
                 /\ Len(new.m_aSplits) = (SetCount - 1) + ((SetCount - 1) \div 2)
                 /\ new.m_cSliceCapacity = Len(new.m_aSplits) + 1
            /\ old.m_cSliceCapacity >= SetCount =>
                 /\ new.m_aSplits = old.m_aSplits
                 /\ new.m_cSliceCapacity = old.m_cSliceCapacity
            /\ \A d \in 1..cDimensions :
                 d # SetDim => NowSelf.m_aDimensions[d] = PreSelf.m_aDimensions[d]
            /\ NowSelf.m_aTensorScores = PreSelf.m_aTensorScores
            /\ NowSelf.m_bExpanded = PreSelf.m_bExpanded

\* A growth of the buffer of a dimension that had a split, which it keeps.
C17_Witness ==
  /\ LastOk("SetCountSlices") /\ last.nAllocs = 1
  /\ PreSelf.m_aDimensions[SetDim].m_cSlices = 2
  /\ NowSelf.m_aDimensions[SetDim].m_cSlices = MaxBins + 1
  /\ At(NowSelf.m_aDimensions[SetDim].m_aSplits, 0) # Uninit
  /\ Len(NowSelf.m_aDimensions[SetDim].m_aSplits)
       > Len(PreSelf.m_aDimensions[SetDim].m_aSplits)

\* the live scores of a tensor
LiveScores(t) == [i \in 1..CountLive(t) |-> At(t.m_aTensorScores, i - 1)]

\* C18: after dst.copy(src) returned Ok, dst.is_equal(src) is true, dst has
\* the slice counts, the live splits, the live scores and the expanded flag
\* of src, and src is as it was.
C18_CopyThenIsEqual ==
  (LastOk("Copy") /\ WellFormed(PreRhs, cBins)) =>
    /\ IsEqual(NowSelf, tensors[last.rhs])
    /\ \A d \in 1..cDimensions :
         /\ NowSelf.m_aDimensions[d].m_cSlices = PreRhs.m_aDimensions[d].m_cSlices
         /\ LiveSplits(NowSelf.m_aDimensions[d]) = LiveSplits(PreRhs.m_aDimensions[d])
    /\ LiveScores(NowSelf) = LiveScores(PreRhs)
    /\ NowSelf.m_bExpanded = PreRhs.m_bExpanded
    /\ tensors[last.rhs] = PreRhs

\* C19: expand of a tensor whose expanded flag is set returns Ok and leaves
\* the tensor as it was, slice counts, splits, scores, capacities and flag,
\* without writing a cell or asking for memory.
C19_ExpandIdempotent ==
  (last.op = "Expand" /\ PreSelf.m_bExpanded) =>
    /\ last.err = ErrNone
    /\ NowSelf = PreSelf
    /\ last.cells = 0
    /\ last.nAllocs = 0

\* The second of two expands of a tensor with more bins than it had slices.
C19_Witness ==
  /\ last.op = "Expand" /\ PreSelf.m_bExpanded /\ nOps = MaxOps
  /\ last.err = ErrNone
  /\ cDimensions = 2
  /\ CountLive(NowSelf) > cScores
  /\ NowSelf = PreSelf

\* C20: after reset every dimension has one slice, the first S scores are
\* 0, the expanded flag is clear, and D, S, the score capacity and the
\* slice capacities are as before.
C20_Reset ==
  last.op = "Reset" =>
    /\ \A d \in 1..cDimensions : NowSelf.m_aDimensions[d].m_cSlices = 1
    /\ \A i \in 0..(NowSelf.m_cScores - 1) : At(NowSelf.m_aTensorScores, i) = 0
    /\ ~NowSelf.m_bExpanded
    /\ NowSelf.m_cDimensions = PreSelf.m_cDimensions
    /\ NowSelf.m_cScores = PreSelf.m_cScores
    /\ Len(NowSelf.m_aTensorScores) = Len(PreSelf.m_aTensorScores)
    /\ \A d \in 1..cDimensions :
         /\ NowSelf.m_aDimensions[d].m_cSliceCapacity
              = PreSelf.m_aDimensions[d].m_cSliceCapacity
         /\ Len(NowSelf.m_aDimensions[d].m_aSplits)
              = Len(PreSelf.m_aDimensions[d].m_aSplits)

\* A reset of an expanded tensor of two scores per cell whose first scores
\* were not 0.
C20_Witness ==
  /\ last.op = "Reset"
  /\ PreSelf.m_bExpanded
  /\ PreSelf.m_cScores = 2
  /\ At(PreSelf.m_aTensorScores, 1) # 0
  /\ CountLive(PreSelf) > 2
  /\ CountLive(NowSelf) = 2

\* C21: multiply(v) writes x * v over each live score x and leaves the
\* cells behind the live scores alone, reports true exactly when a product
\* is NaN or infinite, and changes no slice count, split, capacity or the
\* expanded flag.  The live scores lie inside the score buffer.
C21_Multiply ==
  (last.op = "Multiply" /\ CountLive(PreSelf) <= Len(PreSelf.m_aTensorScores)) =>
    /\ \A i \in 0..(CountLive(PreSelf) - 1) :
         At(NowSelf.m_aTensorScores, i) = FMul(At(PreSelf.m_aTensorScores, i), last.v)
    /\ \A i \in CountLive(PreSelf)..(Len(PreSelf.m_aTensorScores) - 1) :
         At(NowSelf.m_aTensorScores, i) = At(PreSelf.m_aTensorScores, i)
    /\ last.bBad <=> (\E i \in 0..(CountLive(PreSelf) - 1) :
                        \/ IsNaN(At(NowSelf.m_aTensorScores, i))
                        \/ IsInf(At(NowSelf.m_aTensorScores, i)))
    /\ NowSelf.m_aDimensions = PreSelf.m_aDimensions
    /\ Len(NowSelf.m_aTensorScores) = Len(PreSelf.m_aTensorScores)
    /\ NowSelf.m_bExpanded = PreSelf.m_bExpanded
    /\ NowSelf.m_cScores = PreSelf.m_cScores
    /\ NowSelf.m_cDimensions = PreSelf.m_cDimensions
    /\ last.cells * PreSelf.m_cScores = CountLive(PreSelf)

\* A multiply by the largest finite float of a tensor of several cells with
\* the score 1 and a larger score: the report is true, the 1 becomes the
\* largest finite float and the other score is written back as +infinity.
C21_Witness ==
  /\ last.op = "Multiply" /\ last.v = FMax /\ last.bBad
  /\ CountLive(PreSelf) > PreSelf.m_cScores
  /\ CountLive(PreSelf) < Len(PreSelf.m_aTensorScores)
  /\ \E i \in 0..(CountLive(PreSelf) - 1) :
       At(PreSelf.m_aTensorScores, i) > 1 /\ At(NowSelf.m_aTensorScores, i) = PInf
  /\ \E i \in 0..(CountLive(PreSelf) - 1) :
       At(PreSelf.m_aTensorScores, i) = 1 /\ At(NowSelf.m_aTensorScores, i) = FMax

\* C27: the score buffer of every tensor holds at least S times the product
\* of the slice counts, after every operation, failed ones included.
C27_ScoreCapacity ==
  \A id \in TensorIds : CountLive(tensors[id]) <= Len(tensors[id].m_aTensorScores)

\* C28: a.add(b) on two distinct tensors whose live splits and scores lie
\* in their buffers, whether it returns Ok or not,
\* leaves b as it was and leaves D, S and the expanded flag of a as they
\* were; in a dimension where every split of b is a split of a, the slice
\* count and the splits of a are as before.
C28_AddFrame ==
  (last.op = "Add" /\ last.self # last.rhs
     /\ WellFormed(PreSelf, cBins) /\ WellFormed(PreRhs, cBins)) =>
    /\ tensors[last.rhs] = PreRhs
    /\ NowSelf.m_cDimensions = PreSelf.m_cDimensions
    /\ NowSelf.m_cScores = PreSelf.m_cScores
    /\ NowSelf.m_bExpanded = PreSelf.m_bExpanded
    /\ \A d \in 1..cDimensions :
         LiveSplitSet(PreRhs.m_aDimensions[d]) \subseteq LiveSplitSet(PreSelf.m_aDimensions[d])
           => /\ NowSelf.m_aDimensions[d].m_cSlices = PreSelf.m_aDimensions[d].m_cSlices
              /\ LiveSplits(NowSelf.m_aDimensions[d]) = LiveSplits(PreSelf.m_aDimensions[d])

\* An add that returned Ok on two tensors of two dimensions: in the first
\* dimension b has a split and a has it too, with another one; in the
\* second b has a split that a has not, and a gets it.
C28_Witness ==
  /\ LastOk("Add") /\ last.self # last.rhs /\ cDimensions = 2
  /\ WellFormed(PreSelf, cBins) /\ WellFormed(PreRhs, cBins)
  /\ PreRhs.m_aDimensions[1].m_cSlices = 2
  /\ PreSelf.m_aDimensions[1].m_cSlices = 3
  /\ LiveSplitSet(PreRhs.m_aDimensions[1]) \subseteq LiveSplitSet(PreSelf.m_aDimensions[1])
  /\ NowSelf.m_aDimensions[1].m_cSlices = 3
  /\ ~(LiveSplitSet(PreRhs.m_aDimensions[2]) \subseteq LiveSplitSet(PreSelf.m_aDimensions[2]))
  /\ NowSelf.m_aDimensions[2].m_cSlices > PreSelf.m_aDimensions[2].m_cSlices

C22_NeverBad ==
  last.op = "AddExpanded" =>
    \A i \in 0..(CountLive(NowSelf) - 1) : IsFinite(At(NowSelf.m_aTensorScores, i))

\* ============================================== CalcInteractionStrength
\* The float division of FloatEbmType by a positive finite weight num/den.
FDiv(x, w) ==
  IF IsNaN(x) THEN NaN
  ELSE IF IsInf(x) THEN x
  ELSE IF x >= 0 THEN FRound((x * w.den) \div w.num)
  ELSE FRound(0 - (((0 - x) * w.den) \div w.num))

\* k_illegalGainDouble: the lowest finite value of the float type
k_illegalGainDouble == 0 - FMax

\* k_cDimensionsMax: one less than the number of bits of size_t
k_cDimensionsMax == SizeBits - 1

\* the runtime learning type: regression, or the number of target classes
k_regression == 0 - 1
IsClassification(cClasses) == cClasses >= 0
GetVectorLength(cClasses) == IF cClasses <= 2 THEN 1 ELSE cClasses

\* The size of a histogram bucket, in units of one float: the count and the
\* weight, then per score a gradient and, for classification, a hessian.
BucketEntrySize(bClassification) == IF bClassification THEN 2 ELSE 1
GetHistogramBucketSizeOverflow(bClassification, cVectorLength) ==
  \/ IsMultiplyError(BucketEntrySize(bClassification), cVectorLength)
  \/ IsAddError(2, BucketEntrySize(bClassification) * cVectorLength)
GetHistogramBucketSize(bClassification, cVectorLength) ==
  2 + BucketEntrySize(bClassification) * cVectorLength

InteractionOptions_Pure == 1
\* the bits of the options word, low bit first
HasUnknownFlags(options) == options \div 2 # 0

IsConvertError(x) == x < 0 \/ x > SizeMax

\* ------------------------------------------------------ the shell and the
\* inputs of a call.  The shell has the features with these bin counts.
Features == << 1, 2, 16, 100 >>
MaxCountDims == 3

CountValues == (0 - 1)..MaxCountDims \cup {k_cDimensionsMax + 1}
IndexValues == (0 - 1)..Len(Features)
OptionValues == {0, 1, 2, 3}
MinSamplesValues == {0 - 3, 0, 2, SizeMax, SizeMax + 5}
ClassValues == {k_regression, 1, 2, 3}
SampleCounts == {0, 6}
WeightValues == { [num |-> 1, den |-> 2], [num |-> 1, den |-> 1], [num |-> 2, den |-> 1] }
GainValues == { NaN, PInf, NInf, 0 - FMax, 0 - 3, 0, 3, FMax }


NoWeight == [num |-> 1, den |-> 1]

\* The locals of CalcInteractionStrength and CalcInteractionStrengthInternal,
\* and what the call has read of the data set so far: cSamples is -1 and
\* cClasses is 0 until the call reads them.
InitLoc ==
  [ cSamplesRequiredForChildSplitMin |-> 1,
    bUnknownFlags |-> FALSE,
    iIndex |-> 0,
    featureGroup |-> << >>,
    cSamples |-> 0 - 1,
    cClasses |-> 0,
    iDimension |-> 0,
    cAuxillaryBucketsForBuildFastTotals |-> 0,
    cTotalBucketsMainSpace |-> 1,
    cAuxillaryBuckets |-> 0,
    cTotalBuckets |-> 0,
    cBytesPerHistogramBucket |-> 0,
    cBytesBuffer |-> 0,
    pAuxiliaryBucketZone |-> 0,
    cZeroed |-> 0,
    bestGain |-> 0,
    totalWeight |-> NoWeight,
    optionsPassed |-> 0,
    cSamplesMinPassed |-> 0 ]

InterInit ==
  /\ call \in
       { c \in [ handleNull : BOOLEAN,
                 countDimensions : CountValues,
                 indexesNull : BOOLEAN,
                 featureIndexes : UNION { [1..n -> IndexValues] : n \in 0..MaxCountDims },
                 options : OptionValues,
                 countSamplesRequiredForChildSplitMin : MinSamplesValues,
                 outNull : BOOLEAN ] :
           /\ Len(c.featureIndexes) =
                (IF c.countDimensions \in 1..MaxCountDims /\ ~c.indexesNull
                 THEN c.countDimensions ELSE 0)         }
  /\ pc = "entry"
  /\ out = NaN
  /\ ret = "none"
  /\ loc = InitLoc
  /\ trace = << >>

\* ------------------------------------------------------------ the call
\* a store through avgInteractionStrengthOut, which may be null
Store(old, v) == IF call.outNull THEN old ELSE v

OutOnEntry_Keep(old) == old

\* the output is set to the illegal gain on entry
OutOnEntry(old) == Store(old, k_illegalGainDouble)

\* the cast alone: a value beyond size_t wraps
ClampMinSamples_Cast(c) == IF 1 <= c THEN SizeT(c) ELSE 1

\* the value handed to the partitioner for countSamplesRequiredForChildSplitMin
ClampMinSamples(c) ==
  IF 1 <= c
  THEN IF IsConvertError(c) THEN SizeMax ELSE c
  ELSE 1

Return(code, o) ==
  /\ ret' = code
  /\ out' = o
  /\ pc' = "done"

CallEntry ==
  /\ pc = "entry"
  /\ UNCHANGED tvars
  /\ UNCHANGED << call, trace >>
  /\ LET o == OutOnEntry(out)
     IN IF call.handleNull
        THEN Return(ErrIllegalParam, o) /\ UNCHANGED loc
        ELSE
        /\ loc' = [loc EXCEPT
                     !.bUnknownFlags = HasUnknownFlags(call.options),
                     !.cSamplesRequiredForChildSplitMin =
                        ClampMinSamples(call.countSamplesRequiredForChildSplitMin)]
        /\ IF call.countDimensions <= 0
           THEN IF call.countDimensions = 0
                THEN Return(ErrNone, Store(o, 0))
                ELSE Return(ErrIllegalParam, o)
           ELSE IF call.indexesNull
           THEN Return(ErrIllegalParam, o)
           ELSE IF k_cDimensionsMax < call.countDimensions
           THEN Return(ErrOutOfMemory, o)
           ELSE /\ pc' = "features"
                /\ out' = o
                /\ UNCHANGED ret

IsTrivialFeature_NoBins(cBinsArg) == cBinsArg < 1

\* a feature with one bin (or none) carries no information
IsTrivialFeature(cBinsArg) == cBinsArg <= 1

\* One iteration of the loop over featureIndexes.
FeatureLoopStep ==
  /\ pc = "features"
  /\ UNCHANGED tvars
  /\ UNCHANGED << call, trace >>
  /\ LET indexFeatureInterop == call.featureIndexes[loc.iIndex + 1]
     IN IF indexFeatureInterop < 0
        THEN Return(ErrIllegalParam, out) /\ UNCHANGED loc
        ELSE IF Len(Features) <= indexFeatureInterop
        THEN Return(ErrIllegalParam, out) /\ UNCHANGED loc
        ELSE IF IsTrivialFeature(Features[indexFeatureInterop + 1])
        THEN Return(ErrNone, Store(out, 0)) /\ UNCHANGED loc
        ELSE /\ loc' = [loc EXCEPT
                          !.featureGroup = Append(@, Features[indexFeatureInterop + 1]),
                          !.iIndex = @ + 1]
             /\ pc' = IF loc.iIndex + 1 = call.countDimensions
                      THEN "dataset" ELSE "features"
             /\ UNCHANGED << out, ret >>

\* The checks of the data set: no samples, or a single target class.
DataSetChecks ==
  /\ pc = "dataset"
  /\ UNCHANGED tvars
  /\ UNCHANGED << call, trace >>
  /\ \E cSamples \in SampleCounts :
       IF cSamples = 0
       THEN /\ loc' = [loc EXCEPT !.cSamples = cSamples]
            /\ Return(ErrNone, Store(out, 0))
       ELSE \E cClasses \in ClassValues :
              /\ loc' = [loc EXCEPT !.cSamples = cSamples, !.cClasses = cClasses]
              /\ IF cClasses = 1
                 THEN Return(ErrNone, Store(out, 0))
                 ELSE pc' = "sizing" /\ UNCHANGED << out, ret >>

\* the main space is stored instead of added
AccumulateAux_Overwrite(cAuxillaryBucketsForBuildFastTotals, cTotalBucketsMainSpace) ==
  cTotalBucketsMainSpace

\* cAuxillaryBucketsForBuildFastTotals += cTotalBucketsMainSpace, unchecked
AccumulateAux(cAuxillaryBucketsForBuildFastTotals, cTotalBucketsMainSpace) ==
  SizeT(cAuxillaryBucketsForBuildFastTotals + cTotalBucketsMainSpace)

\* the assertions at the head of an iteration and after the multiplication
SizingEntryAssert(cAuxillaryBucketsForBuildFastTotals, cTotalBucketsMainSpace) ==
  /\ cAuxillaryBucketsForBuildFastTotals < cTotalBucketsMainSpace
  /\ ~IsAddError(cAuxillaryBucketsForBuildFastTotals, cTotalBucketsMainSpace)
SizingExitAssert(cAuxillaryBucketsForBuildFastTotals, cTotalBucketsMainSpace) ==
  cAuxillaryBucketsForBuildFastTotals < cTotalBucketsMainSpace

\* One iteration of the loop of CalcInteractionStrengthInternal that sizes
\* the main space and the auxiliary buckets of the totals.
SizingStep ==
  /\ pc = "sizing"
  /\ UNCHANGED tvars
  /\ UNCHANGED << call, trace >>
  /\ LET cBinsF == loc.featureGroup[loc.iDimension + 1]
         cAux == AccumulateAux(loc.cAuxillaryBucketsForBuildFastTotals,
                               loc.cTotalBucketsMainSpace)
     IN IF IsMultiplyError(loc.cTotalBucketsMainSpace, cBinsF)
        THEN /\ loc' = [loc EXCEPT !.cAuxillaryBucketsForBuildFastTotals = cAux]
             /\ Return(ErrOutOfMemory, out)
        ELSE /\ loc' = [loc EXCEPT
                          !.cAuxillaryBucketsForBuildFastTotals = cAux,
                          !.cTotalBucketsMainSpace = SizeT(@ * cBinsF),
                          !.iDimension = @ + 1]
             /\ pc' = IF loc.iDimension + 1 = Len(loc.featureGroup)
                      THEN "arena" ELSE "sizing"
             /\ UNCHANGED << out, ret >>

cAuxillaryBucketsForSplitting == 4

\* The sizes of the arena, after the loop.
SizeArena ==
  /\ pc = "arena"
  /\ UNCHANGED tvars
  /\ UNCHANGED << call, trace >>
  /\ LET cAuxillaryBuckets ==
           IF loc.cAuxillaryBucketsForBuildFastTotals < cAuxillaryBucketsForSplitting
           THEN cAuxillaryBucketsForSplitting
           ELSE loc.cAuxillaryBucketsForBuildFastTotals
         cTotalBuckets == SizeT(loc.cTotalBucketsMainSpace + cAuxillaryBuckets)
         bClassification == IsClassification(loc.cClasses)
         cVectorLength == GetVectorLength(loc.cClasses)
         cBytesPerHistogramBucket == GetHistogramBucketSize(bClassification, cVectorLength)
     IN IF IsAddError(loc.cTotalBucketsMainSpace, cAuxillaryBuckets)
        THEN /\ loc' = [loc EXCEPT !.cAuxillaryBuckets = cAuxillaryBuckets]
             /\ Return(ErrOutOfMemory, out)
        ELSE IF GetHistogramBucketSizeOverflow(bClassification, cVectorLength)
        THEN /\ loc' = [loc EXCEPT !.cAuxillaryBuckets = cAuxillaryBuckets,
                                   !.cTotalBuckets = cTotalBuckets]
             /\ Return(ErrOutOfMemory, out)
        ELSE IF IsMultiplyError(cBytesPerHistogramBucket, cTotalBuckets)
        THEN /\ loc' = [loc EXCEPT !.cAuxillaryBuckets = cAuxillaryBuckets,
                                   !.cTotalBuckets = cTotalBuckets,
                                   !.cBytesPerHistogramBucket = cBytesPerHistogramBucket]
             /\ Return(ErrOutOfMemory, out)
        ELSE /\ loc' = [loc EXCEPT !.cAuxillaryBuckets = cAuxillaryBuckets,
                                   !.cTotalBuckets = cTotalBuckets,
                                   !.cBytesPerHistogramBucket = cBytesPerHistogramBucket,
                                   !.cBytesBuffer =
                                      SizeT(cBytesPerHistogramBucket * cTotalBuckets)]
             /\ pc' = "alloc"
             /\ UNCHANGED << out, ret >>

\* The shell hands out the arena, or fails.
GetHistogramBucketBase ==
  /\ pc = "alloc"
  /\ UNCHANGED tvars
  /\ UNCHANGED << call, loc >>
  /\ trace' = Append(trace, "GetHistogramBucketBase")
  /\ \E bOk \in BOOLEAN :
       IF bOk THEN pc' = "zero" /\ UNCHANGED << out, ret >>
       ELSE Return(ErrOutOfMemory, out)

\* only the main space is zeroed
ZeroLoopEnd_MainOnly(cTotalBuckets, cTotalBucketsMainSpace) == cTotalBucketsMainSpace

\* the bound of the loop that zeroes the buckets
ZeroLoopEnd(cTotalBuckets, cTotalBucketsMainSpace) == cTotalBuckets

\* Every bucket of the arena is zeroed; the auxiliary zone starts after the
\* main space.
ZeroBuckets ==
  /\ pc = "zero"
  /\ UNCHANGED tvars
  /\ UNCHANGED << call, out, ret >>
  /\ loc' = [loc EXCEPT !.cZeroed = ZeroLoopEnd(loc.cTotalBuckets,
                                                 loc.cTotalBucketsMainSpace),
                        !.pAuxiliaryBucketZone = loc.cTotalBucketsMainSpace]
  /\ trace' = Append(trace, "Zero")
  /\ pc' = "bin"

BinInteraction ==
  /\ pc = "bin"
  /\ UNCHANGED tvars
  /\ UNCHANGED << call, out, ret, loc >>
  /\ trace' = Append(trace, "BinInteraction")
  /\ pc' = "totals"

TensorTotalsBuild ==
  /\ pc = "totals"
  /\ UNCHANGED tvars
  /\ UNCHANGED << call, out, ret, loc >>
  /\ trace' = Append(trace, "TensorTotalsBuild")
  /\ pc' = "dispatch"

IsPair_AtLeastTwo(cSignificantDimensions) == cSignificantDimensions >= 2

\* only pairs are scored
IsPair(cSignificantDimensions) == cSignificantDimensions = 2

\* The partitioner returns any float as the gain.
\* no option reaches the partitioner
OptionsPassed_None(options) == 0

\* options goes to the partitioner as the caller gave it
OptionsPassed(options) == options

PartitionTwoDimensionalInteraction ==
  /\ pc = "dispatch"
  /\ UNCHANGED tvars
  /\ IsPair(Len(loc.featureGroup))
  /\ UNCHANGED << call, out, ret >>
  /\ trace' = Append(trace, "PartitionTwoDimensionalInteraction")
  /\ \E bestGain \in GainValues :
       loc' = [loc EXCEPT
                 !.bestGain = bestGain,
                 !.optionsPassed = OptionsPassed(call.options),
                 !.cSamplesMinPassed = loc.cSamplesRequiredForChildSplitMin]
  /\ pc' = IF call.outNull THEN "exit" ELSE "classify"

\* Interactions of other than two dimensions are not handled.
Unhandled ==
  /\ pc = "dispatch"
  /\ UNCHANGED tvars
  /\ ~IsPair(Len(loc.featureGroup))
  /\ UNCHANGED << call, ret, loc, trace >>
  /\ out' = Store(out, k_illegalGainDouble)
  /\ pc' = "exit"

GainIsNaNOrPInf_OnlyInf(bestGain) == bestGain = PInf

\* NaN and +infinity fail the comparison with max()
GainIsNaNOrPInf(bestGain) == ~FLe(bestGain, FMax)

\* The gain stored for the quotient bestGain of the gain and the weight.
ClassifyGain(bestGain) ==
  IF GainIsNaNOrPInf(bestGain) THEN k_illegalGainDouble
  ELSE IF FLt(bestGain, 0)
  THEN IF FLe(0 - FMax, bestGain) THEN 0 ELSE k_illegalGainDouble
  ELSE bestGain

Normalize_NoDivision(bestGain, totalWeight) == bestGain

\* the gain is divided by the total weight before it is classified
Normalize(bestGain, totalWeight) == FDiv(bestGain, totalWeight)

Classify ==
  /\ pc = "classify"
  /\ UNCHANGED tvars
  /\ UNCHANGED << call, ret, trace >>
  /\ \E totalWeight \in WeightValues :
       /\ loc' = [loc EXCEPT !.totalWeight = totalWeight]
       /\ out' = ClassifyGain(Normalize(loc.bestGain, totalWeight))
  /\ pc' = "exit"

\* CalcInteractionStrengthInternal returned Error_None.
Exit ==
  /\ pc = "exit"
  /\ UNCHANGED tvars
  /\ UNCHANGED << call, loc, trace >>
  /\ Return(ErrNone, out)

InterNext ==
  \/ CallEntry
  \/ FeatureLoopStep
  \/ DataSetChecks
  \/ SizingStep
  \/ SizeArena
  \/ GetHistogramBucketBase
  \/ ZeroBuckets
  \/ BinInteraction
  \/ TensorTotalsBuild
  \/ PartitionTwoDimensionalInteraction
  \/ Unhandled
  \/ Classify
  \/ Exit

\* ------------------------------------------- the claims about the call
Returned == pc = "done"
HasOut == ~call.outNull
Invoked(name) == \E i \in 1..Len(trace) : trace[i] = name

\* rules 1 to 3 of the validation do not match: the handle is there, the
\* count is positive and not too large, the indexes are there
PastRule3 ==
  /\ ~call.handleNull
  /\ call.countDimensions \in 1..k_cDimensionsMax
  /\ ~call.indexesNull

IsValidIndex(i) == 0 <= i /\ i < Len(Features)
AllIndexesValid ==
  \A i \in 1..Len(call.featureIndexes) : IsValidIndex(call.featureIndexes[i])
SomeIndexInvalid ==
  \E i \in 1..Len(call.featureIndexes) : ~IsValidIndex(call.featureIndexes[i])
SomeFeatureTrivial ==
  \E i \in 1..Len(call.featureIndexes) :
     /\ IsValidIndex(call.featureIndexes[i])
     /\ Features[call.featureIndexes[i] + 1] <= 1

\* C5: on return from a call with a non-null output pointer the output
\* holds 0, a non-negative finite gain or the illegal-gain sentinel, never
\* NaN or an infinity, whatever the inputs and the partitioner's gain.
C5_OutputLegal ==
  (Returned /\ HasOut) =>
     \/ out = 0
     \/ (IsFinite(out) /\ out >= 0)
     \/ out = k_illegalGainDouble

\* The partitioner returned NaN and the call returned the sentinel.
C5_Witness ==
  /\ Returned /\ HasOut
  /\ Invoked("PartitionTwoDimensionalInteraction")
  /\ IsNaN(loc.bestGain)
  /\ out = k_illegalGainDouble

\* C6: when rules 1 to 3 do not match and some feature index is negative or
\* not less than the number of features, the call returns IllegalParam, even
\* when a feature at an earlier position has one bin or none.
C6_InvalidIndexIsIllegalParam ==
  (Returned /\ PastRule3 /\ SomeIndexInvalid) => ret = ErrIllegalParam

\* C7: when the call returns a code other than Ok and the output pointer is
\* non-null, the output holds the illegal-gain sentinel.
C7_ErrorLeavesSentinel ==
  (Returned /\ ret # ErrNone /\ HasOut) => out = k_illegalGainDouble

\* The arena was asked for and refused.
C7_Witness ==
  /\ Returned /\ HasOut
  /\ ret = ErrOutOfMemory
  /\ Invoked("GetHistogramBucketBase")
  /\ out = k_illegalGainDouble

\* C8: for a pair that reached the partitioner, with g the gain divided by
\* the total weight: the output is the sentinel when g is NaN, +infinity or
\* below the lowest finite value, 0 when g is negative and not below it, and
\* g otherwise.
C8_GainClassification ==
  (Returned /\ HasOut /\ Invoked("PartitionTwoDimensionalInteraction")) =>
     LET g == FDiv(loc.bestGain, loc.totalWeight)
     IN out = (IF IsNaN(g) \/ g = PInf \/ g = NInf THEN k_illegalGainDouble
               ELSE IF g < 0 THEN 0
               ELSE g)

\* A finite gain that the division by a weight below one takes to
\* +infinity.
C8_Witness ==
  /\ Returned /\ HasOut /\ Invoked("PartitionTwoDimensionalInteraction")
  /\ loc.bestGain = FMax
  /\ loc.totalWeight.den > loc.totalWeight.num
  /\ out = k_illegalGainDouble

\* C9: with a valid handle, when there is nothing to score (no dimensions;
\* valid indexes and a feature with one bin or none; no samples; one target
\* class) the call returns Ok, the output is 0, and no collaborator is
\* invoked and no arena asked for.
C9_NothingToScore ==
  (/\ Returned
   /\ ~call.handleNull
   /\ \/ call.countDimensions = 0
      \/ /\ PastRule3
         /\ AllIndexesValid
         /\ (SomeFeatureTrivial \/ loc.cSamples = 0 \/ loc.cClasses = 1))
  => /\ ret = ErrNone
     /\ (HasOut => out = 0)
     /\ trace = << >>

\* A feature with one bin at the second position of a pair.
C9_Witness ==
  /\ Returned /\ HasOut /\ PastRule3 /\ AllIndexesValid
  /\ Len(call.featureIndexes) = 2
  /\ Features[call.featureIndexes[1] + 1] > 1
  /\ Features[call.featureIndexes[2] + 1] = 1
  /\ out = 0

\* a query that passed the validation, the sizing and the allocation
ReachedDispatch ==
  /\ PastRule3
  /\ Len(loc.featureGroup) = call.countDimensions
  /\ loc.cSamples > 0
  /\ loc.cClasses # 1
  /\ Invoked("TensorTotalsBuild")

CollaboratorOrder ==
  << "GetHistogramBucketBase", "Zero", "BinInteraction", "TensorTotalsBuild",
     "PartitionTwoDimensionalInteraction" >>

\* C11: within a query the arena is asked for, every bucket of the main and
\* of the auxiliary zone is zeroed, then BinInteraction, TensorTotalsBuild
\* and the partitioner run, in that order and each at most once; none of
\* them runs after a sizing or an allocation that failed.
C11_CollaboratorOrder ==
  /\ Len(trace) <= Len(CollaboratorOrder)
  /\ \A i \in 1..Len(trace) : trace[i] = CollaboratorOrder[i]
  /\ Invoked("BinInteraction") =>
       loc.cZeroed = loc.cTotalBucketsMainSpace + loc.cAuxillaryBuckets
  /\ ret = ErrOutOfMemory =>
       /\ ~Invoked("BinInteraction")
       /\ ~Invoked("TensorTotalsBuild")
       /\ ~Invoked("PartitionTwoDimensionalInteraction")

\* A pair that went through all the steps.
C11_Witness ==
  /\ Returned
  /\ trace = CollaboratorOrder
  /\ loc.cZeroed > loc.cTotalBucketsMainSpace

\* a query whose features were all gathered and whose data set has samples
\* and is not of one class: CalcInteractionStrengthInternal was called
ReachedSizing ==
  /\ PastRule3
  /\ Len(loc.featureGroup) = call.countDimensions
  /\ loc.cSamples > 0
  /\ loc.cClasses # 1

\* the sum of the products of the first n bin counts, for n from lo to hi
RECURSIVE SumPrefixProducts(_, _, _)
SumPrefixProducts(s, lo, hi) ==
  IF lo > hi THEN 0 ELSE SeqProduct(s, lo) + SumPrefixProducts(s, lo + 1, hi)

MaxOf(x, y) == IF x < y THEN y ELSE x

\* the exact sizes of the arena of the feature group, in unbounded integers
MainExact == SeqProduct(loc.featureGroup, Len(loc.featureGroup))
AuxExact == MaxOf(4, SumPrefixProducts(loc.featureGroup, 0, Len(loc.featureGroup) - 1))
AuxFromOne == MaxOf(4, SumPrefixProducts(loc.featureGroup, 1, Len(loc.featureGroup) - 1))
TotalExact == MainExact + AuxExact
BytesExact ==
  GetHistogramBucketSize(IsClassification(loc.cClasses), GetVectorLength(loc.cClasses))
    * TotalExact

\* C12 as stated: the auxiliary buckets are the larger of 4 and the sum over
\* d >= 1 of the product of the bin counts below d.
C12_AuxSumFromOne ==
  (ReachedSizing /\ Invoked("Zero")) =>
     /\ loc.cTotalBucketsMainSpace = MainExact
     /\ loc.cAuxillaryBuckets = AuxFromOne
     /\ loc.cTotalBuckets = MainExact + AuxFromOne
     /\ loc.pAuxiliaryBucketZone = MainExact

\* C12: the main space is the product of the bin counts, the auxiliary
\* buckets are the larger of 4 and the sum over d >= 0 of the product of the
\* bin counts below d (1 + b0 for a pair), the total is their sum and the
\* auxiliary zone starts at the bucket after the main space.
C12_ArenaSizes ==
  (ReachedSizing /\ Invoked("Zero")) =>
     /\ loc.cTotalBucketsMainSpace = MainExact
     /\ loc.cAuxillaryBuckets = AuxExact
     /\ loc.cTotalBuckets = MainExact + AuxExact
     /\ loc.pAuxiliaryBucketZone = MainExact

\* A pair whose first feature has 16 bins: 17 auxiliary buckets.
C12_Witness ==
  /\ ReachedSizing /\ Invoked("Zero")
  /\ Len(loc.featureGroup) = 2
  /\ loc.featureGroup[1] > 4
  /\ loc.cAuxillaryBuckets = loc.featureGroup[1] + 1

\* C13: with size_t of SizeBits bits, when the product of the bin counts,
\* the sum of the main and auxiliary buckets or the byte size of the arena
\* is not representable the call returns OutOfMemory and asks for no arena;
\* otherwise the main, auxiliary and total buckets and the byte size it
\* computed are the exact values.
C13_SizingOverflow ==
  (Returned /\ ReachedSizing) =>
     IF MainExact > SizeMax \/ TotalExact > SizeMax \/ BytesExact > SizeMax
     THEN ret = ErrOutOfMemory /\ trace = << >>
     ELSE /\ Invoked("GetHistogramBucketBase")
          /\ loc.cTotalBucketsMainSpace = MainExact
          /\ loc.cAuxillaryBuckets = AuxExact
          /\ loc.cTotalBuckets = TotalExact
          /\ loc.cBytesBuffer = BytesExact

\* The accumulation of the auxiliary buckets wrapped, and the check of the
\* multiplication that follows returned OutOfMemory.
C13_Witness ==
  /\ Returned /\ ReachedSizing
  /\ ret = ErrOutOfMemory
  /\ trace = << >>
  /\ loc.cAuxillaryBucketsForBuildFastTotals
       < SumPrefixProducts(loc.featureGroup, 0, loc.iDimension)

\* the value the partitioner is to get for min_samples_for_child_split
ExpectedMinSamples ==
  LET m == call.countSamplesRequiredForChildSplitMin
  IN IF m < 1 THEN 1 ELSE IF m <= SizeMax THEN m ELSE SizeMax

\* what an error return of the call goes back to: the handle, the count, the
\* indexes, or the sizing and the allocation of the arena
ErrorCause ==
  \/ call.handleNull
  \/ call.countDimensions < 0
  \/ call.indexesNull
  \/ k_cDimensionsMax < call.countDimensions
  \/ SomeIndexInvalid
  \/ (ret = ErrOutOfMemory /\ ReachedSizing)

\* C23: the partitioner gets 1 for min_samples_for_child_split below 1, the
\* value itself when it is from 1 to the maximum of size_t and that maximum
\* when it is larger; an error return always has a cause other than the
\* value of min_samples_for_child_split.
C23_MinSamplesClamp ==
  /\ (~call.handleNull /\ pc # "entry") =>
       loc.cSamplesRequiredForChildSplitMin = ExpectedMinSamples
  /\ Invoked("PartitionTwoDimensionalInteraction") =>
       loc.cSamplesMinPassed = ExpectedMinSamples
  /\ (Returned /\ ret # ErrNone) => ErrorCause

\* A call with a value beyond size_t that went through the partitioner and
\* returned Ok: the partitioner got the maximum of size_t.
C23_Witness ==
  /\ Returned /\ ret = ErrNone
  /\ Invoked("PartitionTwoDimensionalInteraction")
  /\ call.countSamplesRequiredForChildSplitMin > SizeMax
  /\ loc.cSamplesMinPassed = SizeMax

\* the position of the first index of the call that is invalid or names a
\* feature of one bin, 0 when there is none
FirstStop ==
  LET stops == {i \in 1..Len(call.featureIndexes) :
                  \/ ~IsValidIndex(call.featureIndexes[i])
                  \/ Features[call.featureIndexes[i] + 1] <= 1}
  IN IF stops = {} THEN 0 ELSE CHOOSE i \in stops : \A j \in stops : i <= j

C26_SizingAssertions ==
  /\ pc = "sizing" =>
       SizingEntryAssert(loc.cAuxillaryBucketsForBuildFastTotals,
                         loc.cTotalBucketsMainSpace)
  /\ (pc \in {"sizing", "arena"} /\ loc.iDimension > 0) =>
       SizingExitAssert(loc.cAuxillaryBucketsForBuildFastTotals,
                        loc.cTotalBucketsMainSpace)

\* ------------------------------------------------------ specifications
\* The two parts share nothing: each specification runs one of them and
\* leaves the other in its initial state.
InterIdle ==
  /\ call = [ handleNull |-> TRUE, countDimensions |-> 0, indexesNull |-> TRUE,
              featureIndexes |-> << >>, options |-> 0,
              countSamplesRequiredForChildSplitMin |-> 0, outNull |-> TRUE ]
  /\ pc = "idle"
  /\ out = NaN
  /\ ret = "none"
  /\ loc = InitLoc
  /\ trace = << >>

TensorIdle ==
  /\ cBins = << >>
  /\ tensors = [id \in TensorIds |-> Allocate(0, 1)]
  /\ last = LastRec("Allocate", "a", "a", PlainRes(Allocate(0, 1), 0),
                    [id \in TensorIds |-> Allocate(0, 1)])
  /\ nOps = 0

InitTensor == TensorInit /\ InterIdle
InitInteraction == InterInit /\ TensorIdle

SpecTensor == InitTensor /\ [][TensorNext]_vars

SpecTensorSlices == InitTensor /\ [][TensorSlicesNext]_vars

SpecTensorClamped == InitTensor /\ [][TensorClampedNext]_vars

SpecInteraction == InitInteraction /\ [][InterNext]_vars

====
